---- MODULE Spec2Model ----
(***************************************************************************)
(* A model of the reconciler of src/src/stem.ts: the FuelStem scheduler    *)
(* (render, lock, render queue, unsafe update zone), the stack based patch *)
(* walker (patch, patchComponent, createNextStackState) and the batch      *)
(* applier (update, replaceElement, copyElementRef, updateElement).        *)
(*                                                                         *)
(* Elements and native nodes live in two arenas (sequences indexed by      *)
(* identity); the bookkeeping fields the reconciler writes on elements     *)
(* (dom, _stem, _keymap, _componentInstance, _ownerElement) are fields of  *)
(* the arena records.  The collaborators that are not part of stem.ts      *)
(* (diff, fastCreateDomTree, cleanupTree, FuelElementView, the DOM) are    *)
(* modelled from their documented contract.                                *)
(***************************************************************************)
EXTENDS Integers, Sequences, FiniteSets, TLC

\* The absent reference (null / undefined) of elements, nodes and instances.
NULL == 0

\* Bounds of the model.
MaxRenders == 3     \* render calls per behaviour
MaxZone == 2        \* nesting depth of enterUnsafeUpdateZone calls

HostTypes == {"div", "span"}
TextType == "#text"
CompTypes == {"CompA", "CompB"}
Keys == {1, 2, 3}

(***************************************************************************)
(* Sequence helpers.                                                       *)
(***************************************************************************)
Range(s) == {s[i] : i \in 1..Len(s)}

RemoveAt(s, i) == [j \in 1..(Len(s) - 1) |-> IF j < i THEN s[j] ELSE s[j + 1]]

\* Array.prototype.indexOf, 1-based; 0 when x is not in s.
IndexOf(s, x) ==
  IF \E i \in 1..Len(s) : s[i] = x
  THEN CHOOSE i \in 1..Len(s) : s[i] = x /\ \A j \in 1..(i - 1) : s[j] # x
  ELSE 0

Without(s, x) == SelectSeq(s, LAMBDA y : y # x)

(***************************************************************************)
(* Element shapes: what a caller hands to render.  A shape is a value; the *)
(* element objects are allocated from it in the arena.                     *)
(*   km      : the element was constructed with a key index of its keyed   *)
(*             children                                                    *)
(*   renders : for a composite element, the tree its component renders     *)
(*             (<<>> when it renders nothing)                              *)
(***************************************************************************)
Host(type, key, attr, kids, km) ==
  [type |-> type, key |-> key, attr |-> attr, text |-> "", kids |-> kids,
   km |-> km, renders |-> <<>>, stem |-> NULL, unmounted |-> FALSE]

Text(key, text) ==
  [type |-> TextType, key |-> key, attr |-> 0, text |-> text, kids |-> <<>>,
   km |-> FALSE, renders |-> <<>>, stem |-> NULL, unmounted |-> FALSE]

Comp(type, key, renders) ==
  [type |-> type, key |-> key, attr |-> 0, text |-> "", kids |-> <<>>,
   km |-> FALSE, renders |-> renders, stem |-> NULL, unmounted |-> FALSE]

NoKeymap == [has |-> FALSE, map |-> [k \in Keys |-> NULL]]

\* The key index element construction builds: key -> child (the last child
\* of a key wins).
BuildKeymap(es, ids) ==
  [has |-> TRUE,
   map |-> [k \in Keys |->
              LET hits == {i \in 1..Len(ids) : es[ids[i]].key = k}
              IN IF hits = {} THEN NULL
                 ELSE ids[CHOOSE i \in hits : \A j \in hits : j <= i]]]

RECURSIVE Alloc(_, _)
RECURSIVE AllocKids(_, _, _, _)

\* Allocates the element objects of a shape; the children and the rendered
\* output of a component first.  Returns [es, id].
Alloc(es, sh) ==
  LET ks == AllocKids(es, sh.kids, 1, <<>>)
      rs == IF sh.renders = <<>> THEN [es |-> ks.es, id |-> NULL]
            ELSE Alloc(ks.es, sh.renders[1])
      e == [type |-> sh.type, key |-> sh.key, attr |-> sh.attr, text |-> sh.text,
            children |-> ks.ids, rendered |-> rs.id, dom |-> NULL,
            _stem |-> sh.stem,
            _keymap |-> IF sh.km THEN BuildKeymap(rs.es, ks.ids) ELSE NoKeymap,
            _componentInstance |-> NULL, _unmounted |-> sh.unmounted,
            _ownerElement |-> NULL]
  IN [es |-> Append(rs.es, e), id |-> Len(rs.es) + 1]

AllocKids(es, kids, i, ids) ==
  IF i > Len(kids) THEN [es |-> es, ids |-> ids]
  ELSE LET r == Alloc(es, kids[i])
       IN AllocKids(r.es, kids, i + 1, Append(ids, r.id))

(***************************************************************************)
(* The heap H = [e, n, hooks, inst, err]: element arena, native node       *)
(* arena, the lifecycle hooks invoked so far, the number of component      *)
(* instances created, and whether an exception is propagating.             *)
(***************************************************************************)
Throw(H) == [H EXCEPT !.err = TRUE]

Hook(H, name, el) == [H EXCEPT !.hooks = Append(@, <<name, el>>)]

\* ---- native tree (DOM) -------------------------------------------------
nodeType(H, n) == IF H.n[n].tag = TextType THEN 3 ELSE 1

Detach(H, c) ==
  LET p == H.n[c].parent
  IN IF p = NULL THEN H
     ELSE [H EXCEPT !.n[p].kids = Without(@, c), !.n[c].parent = NULL]

\* Node.appendChild: the node leaves its current parent and becomes the
\* last child of p.
appendChild(H, p, c) ==
  LET H1 == Detach(H, c)
  IN [H1 EXCEPT !.n[p].kids = Append(@, c), !.n[c].parent = p]

\* Node.removeChild: throws when c is not a child of p.
removeChild(H, p, c) ==
  IF H.n[c].parent # p THEN Throw(H) ELSE Detach(H, c)

\* Node.replaceChild(new, old): new takes the position of old under p.
replaceChild(H, p, new, old) ==
  IF H.n[old].parent # p THEN Throw(H)
  ELSE LET H1 == Detach(H, new)
           i == IndexOf(H1.n[p].kids, old)
       IN [H1 EXCEPT !.n[p].kids = [@ EXCEPT ![i] = new],
                     !.n[new].parent = p,
                     !.n[old].parent = NULL]

\* FuelElementView.createDomElement: one fresh native node for a host
\* element, recorded as the element's dom.
createDomElement(H, el) ==
  LET n == Len(H.n) + 1
      node == [tag |-> H.e[el].type, parent |-> NULL, kids |-> <<>>,
               text |-> H.e[el].text, attr |-> H.e[el].attr, el |-> el]
  IN [H EXCEPT !.n = Append(@, node), !.e[el].dom = n]

\* FuelElementView.attachFuelElementToNode
attachFuelElementToNode(H, n, el) == [H EXCEPT !.n[n].el = el]

\* ---- components ----------------------------------------------------------
isComponent(H, el) == H.e[el].type \in CompTypes

\* FuelElementView.instantiateComponent: the component instance is created
\* unless the element already carries one; the element it renders is returned.
instantiateComponent(H, el) ==
  IF H.e[el]._componentInstance # NULL THEN H
  ELSE [H EXCEPT !.inst = @ + 1, !.e[el]._componentInstance = H.inst + 1]

getComponentRenderedTree(H, el) == H.e[el].rendered

RECURSIVE stripComponent(_, _)
stripComponent(H, el) ==
  IF el # NULL /\ isComponent(H, el) THEN stripComponent(H, H.e[el].rendered)
  ELSE el

\* ---- fastCreateDomTree ---------------------------------------------------
RECURSIVE fastCreateDomTree(_, _)
RECURSIVE createChildren(_, _, _, _)

\* Builds the native subtree of an element and returns [H, node].  A host
\* element that already has a native node keeps it and only gets its
\* children built.
fastCreateDomTree(H, el) ==
  IF el = NULL \/ H.e[el]._unmounted THEN [H |-> H, node |-> NULL]
  ELSE IF isComponent(H, el)
       THEN fastCreateDomTree(instantiateComponent(H, el), H.e[el].rendered)
  ELSE LET H1 == IF H.e[el].dom = NULL THEN createDomElement(H, el) ELSE H
           node == H1.e[el].dom
       IN [H |-> createChildren(H1, node, H.e[el].children, 1), node |-> node]

createChildren(H, node, kids, i) ==
  IF i > Len(kids) THEN H
  ELSE LET r == fastCreateDomTree(H, kids[i])
       IN createChildren(IF r.node = NULL THEN r.H ELSE appendChild(r.H, node, r.node),
                         node, kids, i + 1)

(***************************************************************************)
(* The difference classifier (difference.ts): a set of change kinds and    *)
(* the list of attribute changes.  "null" marks the absent difference of a *)
(* frame that was not parsed yet.                                          *)
(***************************************************************************)
NoDifference == [null |-> TRUE, flags |-> {}, attr |-> <<>>]

diff(H, oldElement, newElement) ==
  IF oldElement = NULL
  THEN [null |-> FALSE, flags |-> {"NEW_ELEMENT"}, attr |-> <<>>]
  ELSE IF newElement = NULL
  THEN [null |-> FALSE, flags |-> {"REMOVE_ELEMENT"}, attr |-> <<>>]
  ELSE LET o == H.e[oldElement]
           n == H.e[newElement]
       IN IF o.type # n.type
          THEN [null |-> FALSE, flags |-> {"REPLACE_ELEMENT"}, attr |-> <<>>]
          ELSE IF o.type = TextType /\ o.text # n.text
          THEN [null |-> FALSE, flags |-> {"TEXT_CHANGED"}, attr |-> <<>>]
          ELSE [null |-> FALSE,
                flags |-> IF o.children = <<>> /\ n.children # <<>>
                          THEN {"CREATE_CHILDREN"} ELSE {},
                attr |-> IF o.attr = n.attr THEN <<>>
                         ELSE <<[key |-> "attr", value |-> n.attr, state |-> "REPLACED"]>>]

isNewElement(d) == "NEW_ELEMENT" \in d.flags
isRemoveElement(d) == "REMOVE_ELEMENT" \in d.flags
isReplaceElement(d) == "REPLACE_ELEMENT" \in d.flags
isTextChanged(d) == "TEXT_CHANGED" \in d.flags
isCreateChildren(d) == "CREATE_CHILDREN" \in d.flags

(***************************************************************************)
(* The batch applier: update and its handlers.                             *)
(***************************************************************************)
\* Runs the next statement unless an exception is propagating.
Then(H, Op(_)) == IF H.err THEN H ELSE Op(H)

elementChildren(H, n) == SelectSeq(H.n[n].kids, LAMBDA c : nodeType(H, c) = 1)

RECURSIVE moveChildren(_, _, _)
\* while (children.length) newDom.appendChild(children[0])
moveChildren(H, oldDom, newDom) ==
  LET children == elementChildren(H, oldDom)
  IN IF children = <<>> THEN H
     ELSE moveChildren(appendChild(H, newDom, children[1]), oldDom, newDom)

replaceElement(H, parent, oldElement, newElement, isKeyedItems) ==
  LET H1 == createDomElement(H, newElement)
      newDom == H1.e[newElement].dom
      oldDom == H1.e[oldElement].dom
      H2 == IF nodeType(H1, oldDom) = 1 /\ nodeType(H1, newDom) = 1
            THEN moveChildren(H1, oldDom, newDom) ELSE H1
  IN IF parent = NULL THEN Throw(H2)                \* parent.dom of null
     ELSE LET parentDom == H2.e[parent].dom
          IN IF parentDom = NULL THEN Throw(H2)
             ELSE IF ~isKeyedItems THEN replaceChild(H2, parentDom, newDom, oldDom)
             ELSE Then(removeChild(H2, parentDom, oldDom),
                       LAMBDA X : appendChild(X, parentDom, newDom))

copyElementRef(H, oldElement, newElement, isKeyedItem) ==
  LET node == H.e[oldElement].dom
      H1 == attachFuelElementToNode([H EXCEPT !.e[newElement].dom = node], node, newElement)
  IN IF ~isKeyedItem THEN H1
     ELSE IF H1.n[node].parent = NULL THEN Throw(H1)     \* parentNode is null
     ELSE appendChild(H1, H1.n[node].parent, node)

RECURSIVE applyAttr(_, _, _, _)
updateElement(H, difference, newElement) ==
  applyAttr(H, difference.attr, H.e[newElement].dom, 1)

applyAttr(H, attr, domElement, i) ==
  IF i > Len(attr) THEN H
  ELSE applyAttr(IF attr[i].state \in {"NEW", "REPLACED"}
                 THEN [H EXCEPT !.n[domElement].attr = attr[i].value]
                 ELSE H,
                 attr, domElement, i + 1)

updateBatchNoCreate(H, b) ==
  LET d == b.difference
      primary ==
        IF isNewElement(d) THEN
          LET r == fastCreateDomTree(H, b.newElement)
          IN IF b.parent # NULL
             THEN IF r.H.e[b.parent].dom = NULL \/ r.node = NULL THEN Throw(r.H)
                  ELSE Hook(appendChild(r.H, r.H.e[b.parent].dom, r.node),
                            "didMount", b.newElement)
             ELSE IF b.oldElement # NULL THEN Throw(r.H)     \* parent.dom of null
                  ELSE r.H
        ELSE IF isRemoveElement(d) THEN
          LET H1 == Hook(H, "willUnmount", b.oldElement)
              node == H.e[b.oldElement].dom
          IN IF node = NULL THEN Throw(H1)
             ELSE IF H1.n[node].parent = NULL THEN Throw(H1)   \* parentNode is null
             ELSE [Detach(H1, node) EXCEPT !.e[b.oldElement]._stem = NULL]
        ELSE IF isReplaceElement(d) THEN
          Then(replaceElement(Hook(H, "willUnmount", b.oldElement), b.parent,
                              b.oldElement, b.newElement, b.isKeyedItem),
               LAMBDA X : Hook(X, "didMount", b.newElement))
        ELSE IF isTextChanged(d) THEN
          LET node == H.e[b.oldElement].dom
              H1 == attachFuelElementToNode(
                      [H EXCEPT !.e[b.newElement].dom = node], node, b.newElement)
          IN Hook([H1 EXCEPT !.n[node].text = H.e[b.newElement].text],
                  "didUpdate", b.newElement)
        ELSE
          Then(copyElementRef(H, b.oldElement, b.newElement, b.isKeyedItem),
               LAMBDA X : Hook(updateElement(X, d, b.newElement),
                               "didUpdate", b.newElement))
  IN primary

\* The body of update's loop for one batch entry.
updateBatch(H, b) ==
  LET d == b.difference
      primary ==
        IF isNewElement(d) THEN
          LET r == fastCreateDomTree(H, b.newElement)
          IN IF b.parent # NULL
             THEN IF r.H.e[b.parent].dom = NULL \/ r.node = NULL THEN Throw(r.H)
                  ELSE Hook(appendChild(r.H, r.H.e[b.parent].dom, r.node),
                            "didMount", b.newElement)
             ELSE IF b.oldElement # NULL THEN Throw(r.H)     \* parent.dom of null
                  ELSE r.H
        ELSE IF isRemoveElement(d) THEN
          LET H1 == Hook(H, "willUnmount", b.oldElement)
              node == H.e[b.oldElement].dom
          IN IF node = NULL THEN Throw(H1)
             ELSE IF H1.n[node].parent = NULL THEN Throw(H1)   \* parentNode is null
             ELSE [Detach(H1, node) EXCEPT !.e[b.oldElement]._stem = NULL]
        ELSE IF isReplaceElement(d) THEN
          Then(replaceElement(Hook(H, "willUnmount", b.oldElement), b.parent,
                              b.oldElement, b.newElement, b.isKeyedItem),
               LAMBDA X : Hook(X, "didMount", b.newElement))
        ELSE IF isTextChanged(d) THEN
          LET node == H.e[b.oldElement].dom
              H1 == attachFuelElementToNode(
                      [H EXCEPT !.e[b.newElement].dom = node], node, b.newElement)
          IN Hook([H1 EXCEPT !.n[node].text = H.e[b.newElement].text],
                  "didUpdate", b.newElement)
        ELSE
          Then(copyElementRef(H, b.oldElement, b.newElement, b.isKeyedItem),
               LAMBDA X : Hook(updateElement(X, d, b.newElement),
                               "didUpdate", b.newElement))
  IN Then(primary,
          LAMBDA X : IF isCreateChildren(d)
                     THEN fastCreateDomTree(X, b.newElement).H ELSE X)

(***************************************************************************)
(* The patch walker's helpers.                                             *)
(***************************************************************************)
NoParent == [present |-> FALSE, newElement |-> NULL, oldElement |-> NULL]

makeInitialStackState(context, newElement, oldElement) ==
  << [newElement |-> newElement, oldElement |-> oldElement,
      newChildren |-> <<>>, oldChildren |-> <<>>, parsed |-> FALSE,
      difference |-> NoDifference, context |-> context, root |-> newElement,
      isKeyedItem |-> FALSE] >>

createNextStackStateNoSplice(H, context, parentState, prev) ==
  LET popped == IF prev.newChildren = <<>> THEN NULL ELSE Head(prev.newChildren)
      newRest == IF prev.newChildren = <<>> THEN <<>> ELSE Tail(prev.newChildren)
      shifted == [oldChild |-> IF prev.oldChildren = <<>> THEN NULL
                               ELSE Head(prev.oldChildren),
                  oldChildren |-> IF prev.oldChildren = <<>> THEN <<>>
                                  ELSE Tail(prev.oldChildren),
                  isKeyedItem |-> FALSE]
      parentNewElement == parentState.newElement
      parentOldElement == parentState.oldElement
      key == IF popped = NULL THEN NULL ELSE H.e[popped].key
      keyHit == /\ parentState.present
                /\ parentOldElement # NULL
                /\ H.e[parentOldElement]._keymap.has
                /\ popped # NULL
                /\ key \in Keys
                /\ H.e[parentOldElement]._keymap.map[key] # NULL
      matched == H.e[parentOldElement]._keymap.map[key]
      H1 == IF keyHit /\ parentNewElement # NULL /\ ~H.e[parentNewElement]._keymap.has
            THEN [H EXCEPT !.e[parentNewElement]._keymap =
                    [has |-> TRUE,
                     map |-> [k \in Keys |-> IF k = key THEN popped ELSE NULL]]]
            ELSE H
      index == IF keyHit THEN IndexOf(prev.oldChildren, matched) ELSE 0
      pick == IF keyHit /\ index # 0
              THEN [oldChild |-> matched,
                    oldChildren |-> prev.oldChildren,
                    isKeyedItem |-> TRUE]
              ELSE shifted
      newChild == IF popped # NULL /\ H.e[popped]._unmounted THEN NULL ELSE popped
      root == IF newChild # NULL /\ H.e[newChild]._stem # NULL THEN newChild
              ELSE prev.root
      H2 == IF newChild # NULL /\ H1.e[newChild]._ownerElement = NULL
            THEN [H1 EXCEPT !.e[newChild]._ownerElement =
                               H1.e[prev.newElement]._ownerElement]
            ELSE H1
  IN [H |-> H2,
      prev |-> [prev EXCEPT !.newChildren = newRest, !.oldChildren = pick.oldChildren],
      state |-> [newElement |-> newChild, oldElement |-> pick.oldChild,
                 newChildren |-> <<>>, oldChildren |-> <<>>, parsed |-> FALSE,
                 difference |-> NoDifference, context |-> context, root |-> root,
                 isKeyedItem |-> pick.isKeyedItem]]

\* Returns [H, prev, state]: the heap, the frame prev with its queues
\* consumed, and the new unparsed child frame.
createNextStackState(H, context, parentState, prev) ==
  LET popped == IF prev.newChildren = <<>> THEN NULL ELSE Head(prev.newChildren)
      newRest == IF prev.newChildren = <<>> THEN <<>> ELSE Tail(prev.newChildren)
      shifted == [oldChild |-> IF prev.oldChildren = <<>> THEN NULL
                               ELSE Head(prev.oldChildren),
                  oldChildren |-> IF prev.oldChildren = <<>> THEN <<>>
                                  ELSE Tail(prev.oldChildren),
                  isKeyedItem |-> FALSE]
      parentNewElement == parentState.newElement
      parentOldElement == parentState.oldElement
      key == IF popped = NULL THEN NULL ELSE H.e[popped].key
      keyHit == /\ parentState.present
                /\ parentOldElement # NULL
                /\ H.e[parentOldElement]._keymap.has
                /\ popped # NULL
                /\ key \in Keys
                /\ H.e[parentOldElement]._keymap.map[key] # NULL
      matched == H.e[parentOldElement]._keymap.map[key]
      H1 == IF keyHit /\ parentNewElement # NULL /\ ~H.e[parentNewElement]._keymap.has
            THEN [H EXCEPT !.e[parentNewElement]._keymap =
                    [has |-> TRUE,
                     map |-> [k \in Keys |-> IF k = key THEN popped ELSE NULL]]]
            ELSE H
      index == IF keyHit THEN IndexOf(prev.oldChildren, matched) ELSE 0
      pick == IF keyHit /\ index # 0
              THEN [oldChild |-> matched,
                    oldChildren |-> RemoveAt(prev.oldChildren, index),
                    isKeyedItem |-> TRUE]
              ELSE shifted
      newChild == IF popped # NULL /\ H.e[popped]._unmounted THEN NULL ELSE popped
      root == IF newChild # NULL /\ H.e[newChild]._stem # NULL THEN newChild
              ELSE prev.root
      H2 == IF newChild # NULL /\ H1.e[newChild]._ownerElement = NULL
            THEN [H1 EXCEPT !.e[newChild]._ownerElement =
                               H1.e[prev.newElement]._ownerElement]
            ELSE H1
  IN [H |-> H2,
      prev |-> [prev EXCEPT !.newChildren = newRest, !.oldChildren = pick.oldChildren],
      state |-> [newElement |-> newChild, oldElement |-> pick.oldChild,
                 newChildren |-> <<>>, oldChildren |-> <<>>, parsed |-> FALSE,
                 difference |-> NoDifference, context |-> context, root |-> root,
                 isKeyedItem |-> pick.isKeyedItem]]

RECURSIVE instantiateAll(_, _)
\* The loop of the remount branch: no previous instance is reused.
instantiateAll(H, newElement) ==
  IF newElement # NULL /\ isComponent(H, newElement)
  THEN instantiateAll(instantiateComponent(H, newElement), H.e[newElement].rendered)
  ELSE [H |-> H, newElement |-> newElement]

RECURSIVE expandPairFresh(_, _, _)
expandPairFresh(H, newElement, oldElement) ==
  IF newElement # NULL /\ isComponent(H, newElement)
  THEN LET revealedOldElement ==
             IF oldElement # NULL /\ isComponent(H, oldElement)
             THEN getComponentRenderedTree(H, oldElement) ELSE oldElement
       IN expandPairFresh(instantiateComponent(H, newElement),
                          H.e[newElement].rendered, revealedOldElement)
  ELSE [H |-> H, newElement |-> newElement, oldElement |-> oldElement]

RECURSIVE expandPair(_, _, _)
\* The lock-step loop: the old side is revealed one layer per new layer.
expandPair(H, newElement, oldElement) ==
  IF newElement # NULL /\ isComponent(H, newElement)
  THEN LET H1 == IF oldElement # NULL /\ H.e[newElement].type = H.e[oldElement].type
                 THEN [H EXCEPT !.e[newElement]._componentInstance =
                                   H.e[oldElement]._componentInstance]
                 ELSE H
           revealedOldElement ==
             IF oldElement # NULL /\ isComponent(H, oldElement)
             THEN getComponentRenderedTree(H, oldElement) ELSE oldElement
       IN expandPair(instantiateComponent(H1, newElement),
                     H.e[newElement].rendered, revealedOldElement)
  ELSE [H |-> H, newElement |-> newElement, oldElement |-> oldElement]

patchComponentRaw(H, context, newElement, oldElement) ==
  [H |-> H, context |-> context, newElement |-> newElement, oldElement |-> oldElement]

\* Returns [H, context, newElement, oldElement].
patchComponent(H, context, newElement, oldElement) ==
  LET r == IF newElement # NULL /\ isComponent(H, newElement)
           THEN IF oldElement # NULL /\ H.e[oldElement].type # H.e[newElement].type
                THEN LET a == instantiateAll(H, newElement)
                     IN [H |-> a.H, newElement |-> a.newElement, oldElement |-> oldElement]
                ELSE expandPair(H, newElement, oldElement)
           ELSE [H |-> H, newElement |-> newElement, oldElement |-> oldElement]
  IN [H |-> r.H, context |-> context, newElement |-> r.newElement,
      oldElement |-> IF r.oldElement # NULL /\ isComponent(r.H, r.oldElement)
                     THEN stripComponent(r.H, r.oldElement) ELSE r.oldElement]

(***************************************************************************)
(* The stem.                                                               *)
(*                                                                         *)
(* render runs synchronously; its position is pc, and cs is the call stack *)
(* of the frames that matter: "zone" for a running enterUnsafeUpdateZone   *)
(* call, "render" for a running patch-path render call (a render started   *)
(* by drainRenderQueue runs inside the frame of the render that drained    *)
(* it).  User code (lifecycle hooks, callbacks, the function of a zone)    *)
(* may call render and enterUnsafeUpdateZone wherever it runs.             *)
(***************************************************************************)
VARIABLES
  tree,            \* FuelStem.tree: the owned tree, or NULL
  lock,            \* FuelStem.lock
  _enabled,        \* FuelStem._enabled
  batchs,          \* FuelStem.batchs
  batchCallback,   \* FuelStem.batchCallback: the closure (old, callback), or unset
  renderQueue,     \* FuelStem.renderQueue
  renderId,        \* the renderer's id, advanced by updateId
  heap,            \* elements, native nodes, hooks invoked
  pc,              \* position of the running render call
  stack,           \* patch: the walker's stack (top at the end)
  parent,          \* patch: the walker's parent variable
  cur,             \* arguments and locals of the running render call
  cs,              \* call stack
  nextCall,        \* render calls made by callers so far
  events,          \* history: what the stem did, in order
  cleaned          \* history: the trees handed to cleanupTree

vars == <<tree, lock, _enabled, batchs, batchCallback, renderQueue, renderId, heap,
          pc, stack, parent, cur, cs, nextCall, events, cleaned>>

State ==
  [tree |-> tree, lock |-> lock, _enabled |-> _enabled, batchs |-> batchs,
   batchCallback |-> batchCallback, renderQueue |-> renderQueue,
   renderId |-> renderId, heap |-> heap, pc |-> pc, stack |-> stack,
   parent |-> parent, cur |-> cur, cs |-> cs, nextCall |-> nextCall,
   events |-> events, cleaned |-> cleaned]

Commit(S) ==
  /\ tree' = S.tree
  /\ lock' = S.lock
  /\ _enabled' = S._enabled
  /\ batchs' = S.batchs
  /\ batchCallback' = S.batchCallback
  /\ renderQueue' = S.renderQueue
  /\ renderId' = S.renderId
  /\ heap' = S.heap
  /\ pc' = S.pc
  /\ stack' = S.stack
  /\ parent' = S.parent
  /\ cur' = S.cur
  /\ cs' = S.cs
  /\ nextCall' = S.nextCall
  /\ events' = S.events
  /\ cleaned' = S.cleaned

DefaultContext == 0         \* the default context {}

NoCallback == [set |-> FALSE, old |-> NULL, cb |-> NULL]
NoCur == [cb |-> NULL, el |-> NULL, context |-> DefaultContext, updateOwner |-> TRUE,
          i |-> 0, nested |-> FALSE]

Top(s) == s[Len(s)]
PopNothing(s) == s

Pop(s) == SubSeq(s, 1, Len(s) - 1)

\* History: the event ev of the render whose callback is call; el,
\* updateOwner and old are recorded for the start of a render.
EvStart(S, ev, call, arg, el, updateOwner) ==
  [S EXCEPT !.events = Append(@, [ev |-> ev, call |-> call, arg |-> arg, el |-> el,
                                  updateOwner |-> updateOwner, old |-> S.tree])]

Ev(S, ev, call, arg) == EvStart(S, ev, call, arg, NULL, TRUE)

\* An exception nobody catches: every frame of the call stack is left.
ThrowS(S) ==
  [Ev(S, "throw", S.cur.cb, S.pc) EXCEPT
     !.heap.err = FALSE, !.pc = "idle", !.cs = <<>>, !.stack = <<>>,
     !.parent = NoParent, !.cur = NoCur]

\* The running render call (and the calls that drained it) return.
Return(S) ==
  [S EXCEPT !.pc = "idle", !.stack = <<>>, !.parent = NoParent, !.cur = NoCur,
            !.cs = IF S.cs # <<>> /\ Top(S.cs) = "render" THEN Pop(S.cs) ELSE S.cs]

IsLockedNever(S) == FALSE

IsLocked(S) == S.lock

\* Array.prototype.shift on the render queue: [next, rest].
shiftLast(q) == [next |-> q[Len(q)], rest |-> SubSeq(q, 1, Len(q) - 1)]

shift(q) == [next |-> Head(q), rest |-> Tail(q)]

IsEnabled(S) == S._enabled

attachAlwaysOwns(S, el, updateOwner) ==
  LET r == fastCreateDomTree(S.heap, el)
  IN [S |-> [S EXCEPT !.heap = r.H, !.tree = el], domTree |-> r.node]

attach(S, el, updateOwner) ==
  LET r == fastCreateDomTree(S.heap, el)
  IN [S |-> [S EXCEPT !.heap = r.H, !.tree = IF updateOwner THEN el ELSE @],
      domTree |-> r.node]

\* FuelStem.render up to the point where the walker's loop starts (patch
\* path) or to its return (the other paths).  cb names the callback.
render(S, el, cb, context, updateOwner) ==
  IF ~IsEnabled(S)
  THEN IF S.tree = NULL                                       \* this.tree.dom of null
       THEN ThrowS([EvStart(S, "skip", cb, NULL, el, updateOwner) EXCEPT
                      !.cur.cb = cb, !.pc = "render"])
       ELSE LET S1 == Ev(EvStart(S, "skip", cb, NULL, el, updateOwner),
                            "callback", cb, S.heap.e[S.tree].dom)
            IN IF S.pc = "drain" THEN Return(S1) ELSE S1
  ELSE IF IsLocked(S)
  THEN [EvStart(S, "queue", cb, NULL, el, updateOwner) EXCEPT
          !.renderQueue = Append(@, [element |-> el, cb |-> cb])]
  ELSE LET S1 == [S EXCEPT !.renderId = @ + 1]
       IN IF S1.tree # NULL
          THEN [EvStart(S1, "patch", cb, NULL, el, updateOwner) EXCEPT
                  !.lock = TRUE,
                  !.batchs = <<>>,
                  !.stack = makeInitialStackState(context, el, S1.tree),
                  !.parent = NoParent,
                  !.pc = "patch",
                  !.cur = [cb |-> cb, el |-> el, context |-> context,
                           updateOwner |-> updateOwner, i |-> 0,
                           nested |-> (S.pc = "drain")],
                  !.cs = IF S.pc = "idle" THEN Append(S.cs, "render") ELSE S.cs]
          ELSE LET a == attach(S1, el, updateOwner)
                   S2 == Ev(EvStart(a.S, "attach", cb, NULL, el, updateOwner),
                            "callback", cb, a.domTree)
               IN IF S.pc = "drain" THEN Return(S2) ELSE S2

inheritStemNever(H, newElement, oldElement) == H

\* if (newElement && oldElement) newElement._stem = oldElement._stem
inheritStem(H, newElement, oldElement) ==
  IF newElement # NULL /\ oldElement # NULL
  THEN [H EXCEPT !.e[newElement]._stem = H.e[oldElement]._stem]
  ELSE H

invariantNever(H, oldElement) == FALSE

\* if (oldElement) invariant(!oldElement.dom, ...): TRUE when the assertion
\* fails, a present old element having no native node.
invariant(H, oldElement) == oldElement # NULL /\ H.e[oldElement].dom = NULL

expandableAlways(next) == next.newChildren # <<>> \/ next.oldChildren # <<>>

\* patch: the condition under which a parsed frame is pushed back with a
\* child frame.
expandable(next) ==
  /\ (next.newChildren # <<>> \/ next.oldChildren # <<>>)
  /\ \/ next.difference.null
     \/ next.difference.flags = {}
     \/ next.difference.flags = {"REPLACE_ELEMENT"}

\* One iteration of the walker's while loop.
patchStep(S) ==
  LET next0 == Top(S.stack)
      rest == Pop(S.stack)
      pcm == patchComponent(S.heap, next0.context, next0.newElement, next0.oldElement)
      newElement == IF next0.parsed THEN next0.newElement ELSE pcm.newElement
      oldElement == IF next0.parsed THEN next0.oldElement ELSE pcm.oldElement
      context == IF next0.parsed THEN next0.context ELSE pcm.context
      H1 == IF next0.parsed THEN S.heap ELSE inheritStem(pcm.H, newElement, oldElement)
      currentRoot == IF newElement # NULL /\ H1.e[newElement]._stem # NULL
                     THEN newElement ELSE next0.root
      difference == diff(H1, oldElement, newElement)
      next == IF next0.parsed THEN next0
              ELSE [next0 EXCEPT
                      !.newElement = newElement,
                      !.oldElement = oldElement,
                      !.context = context,
                      !.difference = difference,
                      !.newChildren = IF newElement # NULL
                                      THEN H1.e[newElement].children ELSE <<>>,
                      !.oldChildren = IF oldElement # NULL
                                      THEN H1.e[oldElement].children ELSE <<>>,
                      !.parsed = TRUE]
      pushed == IF next0.parsed THEN S.batchs
                ELSE Append(S.batchs,
                       [root |-> currentRoot,
                        parent |-> IF S.parent.present THEN S.parent.newElement ELSE NULL,
                        newElement |-> newElement, oldElement |-> oldElement,
                        isKeyedItem |-> next0.isKeyedItem, difference |-> difference,
                        context |-> context])
      expand == expandable(next)
      c == createNextStackState(H1, context, S.parent, next)
  IN IF ~next0.parsed /\ newElement = NULL /\ oldElement = NULL
     THEN [S EXCEPT !.heap = pcm.H, !.stack = rest]                       \* continue
     ELSE IF ~next0.parsed /\ invariant(H1, oldElement)
     THEN ThrowS([S EXCEPT !.heap = H1])                                  \* invariant
     ELSE IF expand
     THEN [S EXCEPT !.heap = c.H, !.batchs = pushed,
                    !.stack = rest \o <<c.prev, c.state>>,
                    !.parent = [present |-> TRUE, newElement |-> next.newElement,
                                oldElement |-> next.oldElement]]
     ELSE [S EXCEPT !.heap = H1, !.batchs = pushed, !.stack = rest]

patchDoneAlwaysOwns(S) ==
  LET S1 == [S EXCEPT !.tree = S.cur.el,
                      !.batchCallback = [set |-> TRUE, old |-> S.tree, cb |-> S.cur.cb]]
  IN IF S1.batchs # <<>>
     THEN [Ev(S1, "diffed", S.cur.cb, Len(S.batchs)) EXCEPT !.pc = "update", !.cur.i = 1]
     ELSE [Return(S1) EXCEPT !.batchCallback = IF S.cur.nested THEN NoCallback ELSE @]

\* render after patch returned: the owner is updated, the completion
\* closure is stored and renderAtAnimationFrame is entered.
patchDone(S) ==
  LET S1 == [S EXCEPT !.tree = IF S.cur.updateOwner THEN S.cur.el ELSE @,
                      !.batchCallback = [set |-> TRUE, old |-> S.tree, cb |-> S.cur.cb]]
  IN IF S1.batchs # <<>>
     THEN [Ev(S1, "diffed", S.cur.cb, Len(S.batchs)) EXCEPT !.pc = "update", !.cur.i = 1]
     ELSE [Return(S1) EXCEPT !.batchCallback = IF S.cur.nested THEN NoCallback ELSE @]

updateStepBackwards(S) ==
  LET H1 == updateBatch(S.heap, S.batchs[Len(S.batchs) + 1 - S.cur.i])
      S1 == Ev([S EXCEPT !.heap = H1], "apply", S.cur.cb, S.cur.i)
  IN IF H1.err THEN ThrowS([S EXCEPT !.heap = H1])
     ELSE IF S.cur.i < Len(S.batchs) THEN [S1 EXCEPT !.cur.i = @ + 1]
     ELSE [S1 EXCEPT !.batchs = <<>>, !.pc = "cleanup"]

\* update: one entry of the batch; after the last one the batch is emptied.
updateStep(S) ==
  LET H1 == updateBatch(S.heap, S.batchs[S.cur.i])
      S1 == Ev([S EXCEPT !.heap = H1], "apply", S.cur.cb, S.cur.i)
  IN IF H1.err THEN ThrowS([S EXCEPT !.heap = H1])
     ELSE IF S.cur.i < Len(S.batchs) THEN [S1 EXCEPT !.cur.i = @ + 1]
     ELSE [S1 EXCEPT !.batchs = <<>>, !.pc = "cleanup"]

\* batchCallback: cleanupTree(old)
cleanupStep(S) ==
  [Ev(S, "cleanup", S.batchCallback.cb, S.batchCallback.old) EXCEPT
     !.cleaned = @ \cup {S.batchCallback.old}, !.pc = "callback"]

\* batchCallback: callback(this.tree.dom)
callbackStep(S) ==
  IF S.tree = NULL THEN ThrowS(S)
  ELSE [Ev(S, "callback", S.batchCallback.cb, S.heap.e[S.tree].dom) EXCEPT
          !.pc = "unlock"]

\* batchCallback: this.lock = false; this.drainRenderQueue(); then the
\* frames of renderAtAnimationFrame reset batchCallback and return.
unlockStep(S) ==
  LET S1 == [Ev(S, "unlock", S.batchCallback.cb, NULL) EXCEPT
               !.lock = FALSE, !.pc = "drain"]
  IN IF S1.renderQueue = <<>> THEN [Return(S1) EXCEPT !.batchCallback = NoCallback]
     ELSE LET n == shift(S1.renderQueue).next
              S2 == render([S1 EXCEPT !.renderQueue = shift(@).rest], n.element, n.cb,
                           DefaultContext, TRUE)
          IN IF S2.pc = "idle" /\ S2.cs = Pop(S.cs)
             THEN [S2 EXCEPT !.batchCallback = NoCallback]
             ELSE S2

(***************************************************************************)
(* Inputs.                                                                 *)
(***************************************************************************)
MaxKids == 3        \* children of one element

Leaf(type, key) == Host(type, key, 0, <<>>, FALSE)

\* Trees of the scheduler's behaviours: attribute change, type change at
\* the root, children created, children walked.
ProtoShapes ==
  { Host("div", 0, 1, <<>>, FALSE),
    Host("span", 0, 0, <<>>, FALSE),
    Host("div", 0, 0, <<Leaf("span", 0)>>, FALSE) }

\* The optional arguments of a render call: the defaults, or both given.
CallArgs ==
  { [context |-> DefaultContext, updateOwner |-> TRUE],
    [context |-> 1, updateOwner |-> FALSE] }

\* Children of the trees of one patch cycle: keyed and unkeyed, two types.
KidKinds == {Leaf("div", k) : k \in Keys \cup {0}} \cup {Leaf("span", 0)}

KidSeqs == UNION {[1..n -> KidKinds] : n \in 0..MaxKids}

\* New children that change the type of a keyed old child.
RetypedSeqs ==
  {<<Leaf("div", 0), Leaf("span", 2), Leaf("div", 0)>>,
   <<Leaf("div", 1), Leaf("span", 2), Leaf("div", 3)>>,
   <<Leaf("span", 2)>>}

\* The owned tree up to a renaming of keys: the child at position i has
\* key i or none.
Canonical(ks) == \A i \in 1..Len(ks) : ks[i].key \in {0, i}

\* Keyed parents with keyed children of their own (two levels of keys).
GrandSeqs ==
  {<<>>, <<Leaf("div", 1)>>, <<Leaf("div", 1), Leaf("div", 2)>>,
   <<Leaf("div", 2), Leaf("div", 1)>>}

MidKinds == {Host("div", k, 0, g, TRUE) : k \in {1, 2}, g \in GrandSeqs}

MidSeqs == UNION {[1..n -> MidKinds] : n \in 1..2}

OldShapes ==
  {Host("div", 0, 0, ks, TRUE) : ks \in {x \in KidSeqs \cup MidSeqs : Canonical(x)}}

NewShapes ==
  {Host("div", 0, 0, ks, FALSE) : ks \in KidSeqs \cup MidSeqs \cup RetypedSeqs}
    \cup {Host("span", 0, 0, ks, FALSE) : ks \in {x \in KidSeqs : Len(x) <= 1}}

(***************************************************************************)
(* Actions.                                                                *)
(***************************************************************************)
EmptyHeap == [e |-> <<>>, n |-> <<>>, hooks |-> <<>>, inst |-> 0, err |-> FALSE]

\* new FuelStem()
Constructed ==
  [tree |-> NULL, lock |-> FALSE, _enabled |-> TRUE, batchs |-> <<>>,
   batchCallback |-> NoCallback, renderQueue |-> <<>>, renderId |-> 0,
   heap |-> EmptyHeap, pc |-> "idle", stack |-> <<>>, parent |-> NoParent,
   cur |-> NoCur, cs |-> <<>>, nextCall |-> 0, events |-> <<>>, cleaned |-> {}]

\* A caller's render(el, callback, context, updateOwner) with a fresh tree.
Call(S, sh, context, updateOwner) ==
  LET a == Alloc(S.heap.e, sh)
  IN render([S EXCEPT !.heap.e = a.es, !.nextCall = @ + 1],
            a.id, S.nextCall + 1, context, updateOwner)

InitState(S) ==
  /\ tree = S.tree
  /\ lock = S.lock
  /\ _enabled = S._enabled
  /\ batchs = S.batchs
  /\ batchCallback = S.batchCallback
  /\ renderQueue = S.renderQueue
  /\ renderId = S.renderId
  /\ heap = S.heap
  /\ pc = S.pc
  /\ stack = S.stack
  /\ parent = S.parent
  /\ cur = S.cur
  /\ cs = S.cs
  /\ nextCall = S.nextCall
  /\ events = S.events
  /\ cleaned = S.cleaned

\* Where user code has run inside a patch-path render: the lifecycle hooks
\* of update (seen when update is through), the caller's callback.
UserCode == {"cleanup", "unlock"}

InRender == cs # <<>> /\ Top(cs) = "render"
InZone == cs # <<>> /\ Top(cs) = "zone"

CanCall == cs = <<>> \/ InZone \/ (InRender /\ pc \in UserCode)

ZoneDepth == Len(SelectSeq(cs, LAMBDA f : f = "zone"))

\* render(el, callback, context, updateOwner), called by user code.
RenderCall ==
  /\ CanCall
  /\ nextCall < MaxRenders
  /\ \E sh \in ProtoShapes, a \in CallArgs :
       Commit(Call(State, sh, a.context, a.updateOwner))

\* enterUnsafeUpdateZone(cb) up to the call of cb.
EnterZone ==
  /\ CanCall
  /\ ZoneDepth < MaxZone
  /\ Commit([State EXCEPT !._enabled = FALSE, !.cs = Append(@, "zone")])

\* enterUnsafeUpdateZone: cb returned.
ExitZone ==
  /\ InZone
  /\ Commit([State EXCEPT !._enabled = TRUE, !.cs = Pop(@)])

\* enterUnsafeUpdateZone: cb threw, and nobody catches the exception (the
\* zones are not called from inside a render here).
ZoneThrow ==
  /\ InZone
  /\ "render" \notin Range(cs)
  /\ Commit([State EXCEPT !.cs = <<>>])

PatchStep == InRender /\ pc = "patch" /\ stack # <<>> /\ Commit(patchStep(State))

PatchDone == InRender /\ pc = "patch" /\ stack = <<>> /\ Commit(patchDone(State))

UpdateStep == InRender /\ pc = "update" /\ Commit(updateStep(State))

Cleanup == InRender /\ pc = "cleanup" /\ Commit(cleanupStep(State))

Callback == InRender /\ pc = "callback" /\ Commit(callbackStep(State))

Unlock == InRender /\ pc = "unlock" /\ Commit(unlockStep(State))

\* new FuelStem(tree): the stem of a tree that was built natively.
Owning(sh) ==
  LET a == Alloc(<<>>, sh)
      r == fastCreateDomTree([EmptyHeap EXCEPT !.e = a.es], a.id)
  IN [Constructed EXCEPT !.heap = r.H, !.tree = a.id]

Init ==
  \/ InitState(Constructed)
  \/ \E sh \in ProtoShapes : InitState(Owning(sh))

Next ==
  \/ RenderCall
  \/ EnterZone
  \/ ExitZone
  \/ ZoneThrow
  \/ PatchStep
  \/ PatchDone
  \/ UpdateStep
  \/ Cleanup
  \/ Callback
  \/ Unlock

Spec == Init /\ [][Next]_vars

(***************************************************************************)
(* One patch cycle over every pair of an owned tree and a new tree: the    *)
(* stem starts attached (after its first render) and is rendered once.     *)
(***************************************************************************)
InitTree == \E sh \in OldShapes : InitState(Owning(sh))

\* The render of the behaviour: render(el, callback).
RenderTree ==
  /\ cs = <<>>
  /\ nextCall = 0
  /\ \E sh \in NewShapes : Commit(Call(State, sh, DefaultContext, TRUE))

NextTree ==
  \/ RenderTree
  \/ PatchStep
  \/ PatchDone
  \/ UpdateStep
  \/ Cleanup
  \/ Callback
  \/ Unlock

SpecTree == InitTree /\ [][NextTree]_vars

(***************************************************************************)
(* Reading the history.                                                    *)
(***************************************************************************)
Calls == 1..nextCall

EvIdx(ev, c) == {i \in DOMAIN events : events[i].ev = ev /\ events[i].call = c}

Happened(ev, c) == EvIdx(ev, c) # {}

LastEvent == events[Len(events)]

\* The render calls that met the lock: started a patch cycle or were queued.
LockPath == {c \in Calls : Happened("patch", c) \/ Happened("queue", c)}

Queued == {c \in Calls : Happened("queue", c)}

\* The render calls made while the stem was enabled.
EnabledCalls == {c \in Calls : Happened("patch", c) \/ Happened("queue", c)
                                 \/ Happened("attach", c)}

\* The batch of render c was applied entirely before event number k.
AppliedBefore(c, k) ==
  \E d \in EvIdx("diffed", c) :
    /\ d < k
    /\ Cardinality({a \in EvIdx("apply", c) : d < a /\ a < k}) = events[d].arg

(***************************************************************************)
(* C1: render calls queued behind a render in flight get their callbacks   *)
(* in submission order (R1, R2, R3), and the patch computation of a queued *)
(* render starts only after the batch of every render before it has been   *)
(* applied and the cleanup of its previous tree has run.                    *)
(***************************************************************************)
C1_InOrder ==
  \A c2 \in Queued : \A c1 \in LockPath :
    c1 < c2 =>
      /\ Happened("callback", c2) =>
           \E i \in EvIdx("callback", c1), j \in EvIdx("callback", c2) : i < j
      /\ \A p \in EvIdx("patch", c2) :
           \E k \in EvIdx("cleanup", c1) : k < p /\ AppliedBefore(c1, k)

\* R1 in flight, R2 and R3 queued behind it, all three called back.
C1_Witness ==
  /\ nextCall = 3
  /\ Queued = {2, 3}
  /\ \A c \in 1..3 : Happened("callback", c)

(***************************************************************************)
(* C2: every render call made on an enabled stem gets its callback exactly *)
(* once and then the lock is released: once no call is running any more    *)
(* (render is synchronous), every such call was called back once and the   *)
(* stem is unlocked.                                                       *)
(***************************************************************************)
C2_AllComplete ==
  cs = <<>> =>
    /\ ~lock
    /\ \A c \in EnabledCalls : Cardinality(EvIdx("callback", c)) = 1

(***************************************************************************)
(* C3: a render call received while the stem is locked only appends one    *)
(* entry to the tail of the render queue; it starts no patch cycle and      *)
(* leaves the owned tree, the batch, the lock and the render id unchanged;  *)
(* at most one patch cycle is in flight and mutations are pending only      *)
(* under the lock.                                                          *)
(***************************************************************************)
InFlight ==
  Cardinality({i \in DOMAIN events : events[i].ev = "patch"})
    - Cardinality({i \in DOMAIN events :
                     \/ events[i].ev = "unlock"
                     \/ events[i].ev = "throw" /\ events[i].arg # "render"})

C3_QueuedStep ==
  (lock /\ _enabled /\ nextCall' = nextCall + 1) =>
    /\ renderQueue' = Append(renderQueue, [element |-> Len(heap'.e), cb |-> nextCall'])
    /\ UNCHANGED <<tree, batchs, lock, renderId, pc, stack, parent, batchCallback, cs>>
    /\ heap'.n = heap.n
    /\ heap'.hooks = heap.hooks
    /\ Len(events') = Len(events) + 1
    /\ events'[Len(events')].ev = "queue"

C3_OnlyQueues ==
  /\ [][C3_QueuedStep]_vars
  /\ [](InFlight <= 1 /\ (batchs # <<>> => lock))

\* A render was queued behind a render whose batch is being applied.
C3_Witness ==
  /\ events # <<>>
  /\ LastEvent.ev = "queue"
  /\ Len(renderQueue) = 2
  /\ batchs # <<>>

(***************************************************************************)
(* C4: on an attached stem render applies no batch entry and does not call  *)
(* back before it returns: while a patch-path render call is running, no    *)
(* entry of its batch has been applied.                                     *)
(***************************************************************************)
C4_DeferredToTick ==
  "render" \in Range(cs) => (pc = "patch" \/ (pc = "update" /\ cur.i = 1))

(***************************************************************************)
(* C5: the completion of a patch-path render applies all batch entries,     *)
(* then cleans up the previously owned tree, then calls back with the       *)
(* native root of the new tree, then unlocks, then dequeues at most one     *)
(* queued render; after it the owned tree is the new tree when updateOwner  *)
(* is true and the tree owned before otherwise.                             *)
(***************************************************************************)
C5_Ordered ==
  \A c \in Calls : \A u \in EvIdx("unlock", c) :
    \E p \in EvIdx("patch", c), k \in EvIdx("cleanup", c), b \in EvIdx("callback", c) :
      /\ p < k /\ k < b /\ b < u
      /\ AppliedBefore(c, k)
      /\ \A a \in EvIdx("apply", c) : p < a /\ a < k
      /\ events[k].arg = events[p].old
      /\ events[b].arg = heap.e[events[p].el].dom
      /\ events[b].arg # NULL

\* Right after the completion of render c.
Completed(c) ==
  /\ events # <<>>
  /\ LastEvent.ev = "unlock"
  /\ LastEvent.call = c

StartOf(c) == events[CHOOSE p \in EvIdx("patch", c) : \A q \in EvIdx("patch", c) : q <= p]

C5_OwnerAfter ==
  \A c \in Calls :
    Completed(c) =>
      tree = IF StartOf(c).updateOwner THEN StartOf(c).el ELSE StartOf(c).old

C5_DrainStep ==
  (cs # <<>> /\ Top(cs) = "render" /\ pc = "unlock" /\ pc' # pc) =>
    /\ ~lock' \/ renderQueue # <<>>
    /\ renderQueue # <<>> =>
         /\ renderQueue' = Tail(renderQueue)
         /\ Cardinality({i \in DOMAIN events' : events'[i].ev = "patch"})
              = Cardinality({i \in DOMAIN events : events[i].ev = "patch"}) + 1

RECURSIVE Built(_, _)
\* The native tree of a host element mirrors it.
Built(H, el) ==
  /\ H.e[el].dom # NULL
  /\ H.n[H.e[el].dom].kids =
       [i \in 1..Len(H.e[el].children) |-> H.e[H.e[el].children[i]].dom]
  /\ \A i \in 1..Len(H.e[el].children) : Built(H, H.e[el].children[i])

C6_AttachStep ==
  (nextCall' = nextCall + 1 /\ _enabled /\ ~lock /\ tree = NULL) =>
    LET el == Len(heap'.e)
        n == Len(events)
    IN /\ Len(events') = n + 2
       /\ events'[n + 1].ev = "attach"
       /\ events'[n + 2] = [ev |-> "callback", call |-> nextCall',
                            arg |-> heap'.e[el].dom, el |-> NULL,
                            updateOwner |-> TRUE, old |-> tree']
       /\ Built(heap', el)
       /\ tree' = IF events'[n + 1].updateOwner THEN el ELSE NULL
       /\ ~lock'
       /\ UNCHANGED <<batchs, pc, stack, parent, renderQueue, batchCallback, cs>>

C6_Attach == [][C6_AttachStep]_vars

\* An attach with updateOwner = false: called back, nothing owned.
C6_Witness ==
  /\ Len(events) = 2
  /\ events[1].ev = "attach"
  /\ ~events[1].updateOwner
  /\ events[2].ev = "callback"
  /\ tree = NULL

(***************************************************************************)
(* C7: a render call inside an unsafe update zone calls back once with the  *)
(* current native root and leaves the owned tree, the lock, the render      *)
(* queue, the batch and the render id unchanged, whatever state the stem is *)
(* in.                                                                      *)
(***************************************************************************)
C7_SkipStep ==
  (nextCall' = nextCall + 1 /\ ~_enabled) =>
    /\ Len(events') = Len(events) + 2
    /\ events'[Len(events')].ev = "callback"
    /\ events'[Len(events')].call = nextCall'
    /\ tree # NULL
    /\ events'[Len(events')].arg = heap.e[tree].dom
    /\ UNCHANGED <<tree, lock, renderQueue, batchs, renderId>>

C7_ZoneSkips == [][C7_SkipStep]_vars

(***************************************************************************)
(* Reading the trees of one patch cycle.                                   *)
(***************************************************************************)
RECURSIVE TreeOf(_, _)
\* The elements of the tree rooted at el.
TreeOf(H, el) ==
  {el} \cup UNION {TreeOf(H, H.e[el].children[i]) : i \in DOMAIN H.e[el].children}

KeysOf(el) == [i \in DOMAIN heap.e[el].children |-> heap.e[heap.e[el].children[i]].key]

\* The new element p kept the native node of the old element o.
Retained(p, o) == heap.e[p].dom # NULL /\ heap.e[p].dom = heap.e[o].dom

\* The children of p are the keyed children of o in another order.
Permuted(p, o) ==
  LET nk == KeysOf(p)
      ok == KeysOf(o)
  IN /\ heap.e[o]._keymap.has
     /\ Len(nk) = Len(ok)
     /\ Len(nk) >= 2
     /\ \A i \in DOMAIN nk : nk[i] # 0
     /\ \A i, j \in DOMAIN nk : i # j => nk[i] # nk[j] /\ ok[i] # ok[j]
     /\ Range(nk) = Range(ok)
     /\ nk # ok

\* The pairs (new, old) of a completed cycle c that share a native node.
RetainedPairs(c) ==
  {po \in TreeOf(heap, StartOf(c).el) \X TreeOf(heap, StartOf(c).old) :
     Retained(po[1], po[2])}

(***************************************************************************)
(* C8: when the keyed children of a parent are rendered again in a         *)
(* permuted order, after the cycle every new child has the native node of  *)
(* the old child with the same key.                                        *)
(***************************************************************************)
C8_KeyedIdentity ==
  \A c \in Calls :
    Completed(c) =>
      LET p == StartOf(c).el
          o == StartOf(c).old
      IN (Retained(p, o) /\ Permuted(p, o)) =>
           \A i, j \in DOMAIN KeysOf(p) :
             KeysOf(p)[i] = KeysOf(o)[j] =>
               heap.e[heap.e[p].children[i]].dom = heap.e[heap.e[o].children[j]].dom

(***************************************************************************)
(* C9: after a render cycle has been applied, the native children of every *)
(* retained parent are the native nodes of its new children, in the order  *)
(* of the new children array.                                              *)
(***************************************************************************)
C9_SiblingOrder ==
  \A c \in Calls :
    Completed(c) =>
      \A po \in RetainedPairs(c) :
        heap.n[heap.e[po[1]].dom].kids =
          [i \in DOMAIN heap.e[po[1]].children |-> heap.e[heap.e[po[1]].children[i]].dom]

(***************************************************************************)
(* C10: applying a 'replaced' batch entry, at any tree position, invokes   *)
(* 'will unmount' on the old element and then 'did mount' on the new one,  *)
(* gives the new element a native node that is not the old one, and puts   *)
(* it where the old node was under the parent's native node.               *)
(***************************************************************************)
Replacing == pc = "update" /\ isReplaceElement(batchs[cur.i].difference) /\ events' # events

Remounted(b) ==
  /\ heap'.hooks = heap.hooks \o << <<"willUnmount", b.oldElement>>,
                                    <<"didMount", b.newElement>> >>
  /\ heap'.e[b.newElement].dom \notin {NULL, heap.e[b.oldElement].dom}

InPlace(b) ==
  LET pd == heap.e[b.parent].dom
  IN heap'.n[pd].kids =
       [k \in DOMAIN heap.n[pd].kids |->
          IF heap.n[pd].kids[k] = heap.e[b.oldElement].dom
          THEN heap'.e[b.newElement].dom ELSE heap.n[pd].kids[k]]

C10_RemountStep ==
  Replacing => /\ Remounted(batchs[cur.i])
               /\ batchs[cur.i].parent # NULL => InPlace(batchs[cur.i])

C10_Remount == [][C10_RemountStep]_vars

(***************************************************************************)
(* One patch cycle over trees with composite elements: a component at the  *)
(* root or among the children, chains of components, components that       *)
(* render nothing.                                                         *)
(***************************************************************************)
CompShapes ==
  { Comp("CompA", 0, <<Leaf("div", 0)>>),
    Comp("CompA", 0, <<Host("div", 0, 1, <<>>, FALSE)>>),
    Comp("CompA", 0, <<Comp("CompB", 0, <<Leaf("div", 0)>>)>>),
    Comp("CompA", 0, <<Comp("CompB", 0, <<Host("div", 0, 1, <<>>, FALSE)>>)>>),
    Comp("CompB", 0, <<Leaf("div", 0)>>),
    Comp("CompA", 0, <<Leaf("span", 0)>>),
    Leaf("div", 0),
    Host("div", 0, 0, <<Comp("CompA", 0, <<Leaf("span", 0)>>), Leaf("span", 0)>>, FALSE),
    Host("div", 0, 0, <<Comp("CompA", 0, <<Host("span", 0, 1, <<>>, FALSE)>>),
                        Comp("CompB", 0, <<>>)>>, FALSE),
    Host("div", 0, 0, <<Comp("CompB", 0, <<Leaf("span", 0)>>),
                        Comp("CompB", 0, <<>>)>>, FALSE),
    Host("div", 0, 0, <<Leaf("span", 0), Leaf("div", 0)>>, FALSE),
    Host("div", 0, 0, <<Host("div", 0, 0, <<Leaf("span", 0)>>, FALSE),
                        Comp("CompB", 0, <<>>), Leaf("div", 0)>>, FALSE) }

InitComp == \E sh \in CompShapes : InitState(Owning(sh))

\* The render of the behaviour: render(el, callback).
RenderComp ==
  /\ cs = <<>>
  /\ nextCall = 0
  /\ \E sh \in CompShapes : Commit(Call(State, sh, DefaultContext, TRUE))

NextComp ==
  \/ RenderComp
  \/ PatchStep
  \/ PatchDone
  \/ UpdateStep
  \/ Cleanup
  \/ Callback
  \/ Unlock

SpecComp == InitComp /\ [][NextComp]_vars

(***************************************************************************)
(* Reading component chains.                                               *)
(***************************************************************************)
RECURSIVE SameChain(_, _, _)
\* Two expansion chains of the same types, down to host elements of the
\* same type.
SameChain(H, n, o) ==
  /\ n # NULL
  /\ o # NULL
  /\ H.e[n].type = H.e[o].type
  /\ isComponent(H, n) => SameChain(H, H.e[n].rendered, H.e[o].rendered)

RECURSIVE Carried(_, _, _)
\* At every level of the chain the new element has the old one's instance.
Carried(H, n, o) ==
  isComponent(H, n) =>
    /\ H.e[n]._componentInstance # NULL
    /\ H.e[n]._componentInstance = H.e[o]._componentInstance
    /\ Carried(H, H.e[n].rendered, H.e[o].rendered)

RECURSIVE ChainOf(_, _)
ChainOf(H, el) ==
  IF el = NULL THEN {}
  ELSE IF isComponent(H, el) THEN {el} \cup ChainOf(H, H.e[el].rendered)
  ELSE {el}

\* The pairs of a completed cycle c that the walker pairs by position: the
\* roots, and the children of two host roots of one type with as many
\* unkeyed children.
PositionalPairs(c) ==
  LET n == StartOf(c).el
      o == StartOf(c).old
      nk == heap.e[n].children
      ok == heap.e[o].children
  IN {<<n, o>>} \cup
     IF /\ heap.e[n].type = heap.e[o].type
        /\ Len(nk) = Len(ok)
        /\ \A i \in DOMAIN nk : heap.e[nk[i]].key = 0 /\ heap.e[ok[i]].key = 0
     THEN {<<nk[i], ok[i]>> : i \in DOMAIN nk}
     ELSE {}

HookCount(name, el) ==
  Cardinality({i \in DOMAIN heap.hooks : heap.hooks[i] = <<name, el>>})

(***************************************************************************)
(* C11: when a composite element is rendered again with a composite        *)
(* element of the same type (the same types down the expansion chain), the *)
(* new element of every level gets the old element's component instance    *)
(* before it is rendered, so no instance is created; the cycle invokes      *)
(* 'did update' exactly once for the resolved host pair and neither 'did    *)
(* mount' nor 'will unmount' for the pair; when the types differ the new    *)
(* element gets a fresh instance.                                           *)
(***************************************************************************)
C11_ExpandStep ==
  (/\ pc = "patch"
   /\ stack # <<>>
   /\ ~Top(stack).parsed
   /\ Top(stack).newElement # NULL
   /\ Top(stack).oldElement # NULL
   /\ isComponent(heap, Top(stack).newElement)) =>
    LET n == Top(stack).newElement
        o == Top(stack).oldElement
    IN /\ SameChain(heap, n, o) => heap'.inst = heap.inst /\ Carried(heap', n, o)
       /\ heap.e[n].type # heap.e[o].type =>
            /\ heap'.e[n]._componentInstance > heap.inst
            /\ heap'.inst > heap.inst

C11_Lifecycle ==
  \A c \in Calls :
    Completed(c) =>
      \A po \in PositionalPairs(c) :
        (isComponent(heap, po[1]) /\ SameChain(heap, po[1], po[2])) =>
          /\ Carried(heap, po[1], po[2])
          /\ HookCount("didUpdate", stripComponent(heap, po[1])) = 1
          /\ \A i \in DOMAIN heap.hooks :
               heap.hooks[i][1] \in {"didMount", "willUnmount"} =>
                 heap.hooks[i][2] \notin ChainOf(heap, po[1]) \cup ChainOf(heap, po[2])

RECURSIVE StructEq(_, _, _)
\* Two element trees with the same types, keys, props, texts and children.
StructEq(H, n, o) ==
  /\ H.e[n].type = H.e[o].type
  /\ H.e[n].key = H.e[o].key
  /\ H.e[n].attr = H.e[o].attr
  /\ H.e[n].text = H.e[o].text
  /\ Len(H.e[n].children) = Len(H.e[o].children)
  /\ \A i \in DOMAIN H.e[n].children :
       StructEq(H, H.e[n].children[i], H.e[o].children[i])

\* What a native mutation can change: structure, attributes and text.
NativeOf(H) ==
  [i \in DOMAIN H.n |->
     [kids |-> H.n[i].kids, parent |-> H.n[i].parent,
      attr |-> H.n[i].attr, text |-> H.n[i].text]]

\* The applier handles one batch entry of the running render.
Applying == pc = "update" /\ events' # events

NoChange(d) == ~d.null /\ d.flags = {} /\ d.attr = <<>>

(***************************************************************************)
(* C12: rendering a tree structurally equal to the owned tree (keyed or    *)
(* not) gives a 'no change' difference for every batch entry, and applying *)
(* an entry performs no attribute, text or structural mutation of the      *)
(* native tree.                                                            *)
(***************************************************************************)
C12_NoMutationStep ==
  (Applying /\ StructEq(heap, StartOf(cur.cb).el, StartOf(cur.cb).old)) =>
    /\ \A i \in DOMAIN batchs : NoChange(batchs[i].difference)
    /\ NativeOf(heap') = NativeOf(heap)

C12_Idempotent == [][C12_NoMutationStep]_vars

(***************************************************************************)
(* C13: when a retained node goes from childless to having children, its   *)
(* batch entry carries the 'children must be created' flag, the batch has  *)
(* no entry for any of its new descendants, and applying the entry builds   *)
(* the native nodes of the new descendants exactly once under the node's    *)
(* existing native node, which is reused.                                   *)
(***************************************************************************)
\* The batch entry b pairs two elements of one type, the old one childless.
GainsChildren(H, b) ==
  /\ b.newElement # NULL
  /\ b.oldElement # NULL
  /\ H.e[b.newElement].type = H.e[b.oldElement].type
  /\ H.e[b.oldElement].children = <<>>
  /\ H.e[b.newElement].children # <<>>

C13_Flagged ==
  pc = "update" =>
    \A i \in DOMAIN batchs :
      GainsChildren(heap, batchs[i]) =>
        /\ isCreateChildren(batchs[i].difference)
        /\ \A j \in DOMAIN batchs :
             j # i => batchs[j].newElement \notin
                        TreeOf(heap, batchs[i].newElement) \ {batchs[i].newElement}

C13_CreateStep ==
  (Applying /\ GainsChildren(heap, batchs[cur.i])) =>
    LET new == batchs[cur.i].newElement
        old == batchs[cur.i].oldElement
    IN /\ \A e \in TreeOf(heap, new) : heap.e[e].dom = NULL
       /\ heap'.e[new].dom = heap.e[old].dom
       /\ Len(heap'.n) = Len(heap.n) + Cardinality(TreeOf(heap, new)) - 1
       /\ Built(heap', new)

C13_CreateChildren == [](C13_Flagged) /\ [][C13_CreateStep]_vars

\* The children of a retained child of the root were just created.
C13_Witness ==
  /\ pc = "update"
  /\ cur.i > 1
  /\ batchs[cur.i - 1].parent # NULL
  /\ GainsChildren(heap, batchs[cur.i - 1])
  /\ Built(heap, batchs[cur.i - 1].newElement)
  /\ heap.e[batchs[cur.i - 1].newElement].dom = heap.e[batchs[cur.i - 1].oldElement].dom

(***************************************************************************)
(* Reading one expansion step of the walker: the parsed frame on top is    *)
(* pushed back with one child taken from each of its queues, followed by   *)
(* the new child frame.                                                    *)
(***************************************************************************)
Expanding == pc = "patch" /\ pc' = "patch" /\ Len(stack') = Len(stack) + 1

ParentFrame == stack'[Len(stack') - 1]

ChildFrame == stack'[Len(stack')]

\* The queues of the frame before the step.
PreNew ==
  IF Top(stack).parsed THEN Top(stack).newChildren
  ELSE IF ParentFrame.newElement = NULL THEN <<>>
  ELSE heap.e[ParentFrame.newElement].children

PreOld ==
  IF Top(stack).parsed THEN Top(stack).oldChildren
  ELSE IF ParentFrame.oldElement = NULL THEN <<>>
  ELSE heap.e[ParentFrame.oldElement].children

\* The old child the key index of the frame's own old element gives for
\* the new child at the head of the queue, or NULL.
OwnKeyMatch ==
  IF /\ PreNew # <<>>
     /\ ParentFrame.oldElement # NULL
     /\ heap.e[ParentFrame.oldElement]._keymap.has
     /\ heap.e[Head(PreNew)].key \in Keys
  THEN heap.e[ParentFrame.oldElement]._keymap.map[heap.e[Head(PreNew)].key]
  ELSE NULL

(***************************************************************************)
(* C14: for every new child taken from a frame's queue, the first one       *)
(* included, if the key index of that frame's old element has the child's   *)
(* key and the matched old child is still in the frame's old-children       *)
(* queue, the child is paired with it, it is spliced out of the queue and   *)
(* the pairing is flagged isKeyedItem.                                      *)
(***************************************************************************)
C14_KeyedStep ==
  (Expanding /\ OwnKeyMatch # NULL /\ OwnKeyMatch \in Range(PreOld)) =>
    /\ ChildFrame.oldElement = OwnKeyMatch
    /\ ChildFrame.isKeyedItem
    /\ ParentFrame.oldChildren = RemoveAt(PreOld, IndexOf(PreOld, OwnKeyMatch))

C14_OwnKeyIndex == [][C14_KeyedStep]_vars

(***************************************************************************)
(* C15: child pairing neither loses nor duplicates identity: an expansion   *)
(* step takes the head of the new-children queue and exactly one old child  *)
(* out of the same frame's old-children queue (none when it is empty); a    *)
(* pairing that is not keyed takes the head of the old queue, also when a   *)
(* key match is no longer there; a keyed pairing pairs equal keys; no old    *)
(* element is paired twice in one batch.                                    *)
(***************************************************************************)
C15_PairStep ==
  Expanding =>
    /\ PreNew # <<>> => /\ ChildFrame.newElement \in {Head(PreNew), NULL}
                        /\ ParentFrame.newChildren = Tail(PreNew)
    /\ PreNew = <<>> => ChildFrame.newElement = NULL /\ ParentFrame.newChildren = <<>>
    /\ PreOld = <<>> => /\ ChildFrame.oldElement = NULL
                        /\ ParentFrame.oldChildren = <<>>
                        /\ ~ChildFrame.isKeyedItem
    /\ PreOld # <<>> =>
         /\ ChildFrame.oldElement \in Range(PreOld)
         /\ ParentFrame.oldChildren =
              RemoveAt(PreOld, IndexOf(PreOld, ChildFrame.oldElement))
         /\ ~ChildFrame.isKeyedItem => ChildFrame.oldElement = Head(PreOld)
         /\ ChildFrame.isKeyedItem =>
              /\ ChildFrame.newElement # NULL
              /\ heap.e[ChildFrame.newElement].key = heap.e[ChildFrame.oldElement].key
              /\ ChildFrame.oldElement = OwnKeyMatch

C15_PairedOnce ==
  \A i, j \in DOMAIN batchs :
    (i # j /\ batchs[i].oldElement # NULL) => batchs[i].oldElement # batchs[j].oldElement

C15_Pairing == [](C15_PairedOnce) /\ [][C15_PairStep]_vars

\* Two new siblings carry one key: the first was matched by key, the second
\* fell back to the next old child in order.
C15_Witness ==
  /\ pc = "update"
  /\ \E i, j \in DOMAIN batchs :
       /\ i < j
       /\ batchs[i].parent # NULL
       /\ batchs[i].parent = batchs[j].parent
       /\ batchs[i].newElement # NULL
       /\ batchs[j].newElement # NULL
       /\ heap.e[batchs[i].newElement].key # 0
       /\ heap.e[batchs[i].newElement].key = heap.e[batchs[j].newElement].key
       /\ batchs[i].isKeyedItem
       /\ ~batchs[j].isKeyedItem
       /\ batchs[j].oldElement # NULL

(***************************************************************************)
(* One patch cycle over host trees and over trees with components.         *)
(***************************************************************************)
InitWalk == InitTree \/ InitComp

NextWalk ==
  \/ RenderTree
  \/ RenderComp
  \/ PatchStep
  \/ PatchDone
  \/ UpdateStep
  \/ Cleanup
  \/ Callback
  \/ Unlock

SpecWalk == InitWalk /\ [][NextWalk]_vars

(***************************************************************************)
(* The work left for the walker: a variant of its loop.  An element weighs *)
(* one more than what it expands to (the tree a component renders, or the  *)
(* children of a host element as they weigh in a queue); a child in a      *)
(* queue weighs three more than in a frame of its own.                     *)
(***************************************************************************)
RECURSIVE Weight(_, _)
RECURSIVE QueueWeight(_, _)

Weight(H, el) ==
  IF el = NULL THEN 0
  ELSE IF isComponent(H, el) THEN 1 + Weight(H, H.e[el].rendered)
  ELSE 1 + QueueWeight(H, H.e[el].children)

QueueWeight(H, q) ==
  IF q = <<>> THEN 0
  ELSE Weight(H, Head(q)) + 3 + QueueWeight(H, Tail(q))

FrameWeight(H, f) ==
  IF f.parsed THEN 1 + QueueWeight(H, f.newChildren) + QueueWeight(H, f.oldChildren)
  ELSE 2 + Weight(H, f.newElement) + Weight(H, f.oldElement)

RECURSIVE StackWeight(_, _)
StackWeight(H, st) ==
  IF st = <<>> THEN 0
  ELSE FrameWeight(H, Head(st)) + StackWeight(H, Tail(st))

Potential == StackWeight(heap, stack)

(***************************************************************************)
(* C16: the patch walker terminates with an empty stack: every step of its *)
(* loop decreases the work left, which is finite; a step pops the top      *)
(* frame; an unparsed frame is parsed (one batch entry at most) and a      *)
(* parsed frame is never parsed again; an expansion step pushes the frame  *)
(* back, parsed, with fewer children left in its queues, and one unparsed  *)
(* child frame; the walker is left only with an empty stack.               *)
(***************************************************************************)
C16_LoopStep ==
  (pc = "patch" /\ stack # <<>>) =>
    LET top == stack[Len(stack)]
        below == SubSeq(stack, 1, Len(stack) - 1)
    IN /\ Potential' < Potential
       /\ \/ pc' = "idle" /\ stack' = <<>>
          \/ /\ pc' = "patch"
             /\ stack' = below
             /\ top.parsed => batchs' = batchs
             /\ Len(batchs') <= Len(batchs) + 1
          \/ /\ Expanding
             /\ SubSeq(stack', 1, Len(stack) - 1) = below
             /\ ParentFrame.parsed
             /\ ~ChildFrame.parsed
             /\ Len(ParentFrame.newChildren) + Len(ParentFrame.oldChildren)
                  < Len(PreNew) + Len(PreOld)
             /\ top.parsed => batchs' = batchs
             /\ ~top.parsed => Len(batchs') = Len(batchs) + 1

C16_ExitStep == (pc = "patch" /\ pc' # "patch") => (stack = <<>> \/ pc' = "idle") /\ stack' = <<>>

C16_Terminates ==
  /\ [][C16_LoopStep /\ C16_ExitStep]_vars
  /\ [](Potential >= 0 /\ (pc # "patch" => stack = <<>>))

\* The walker finished the walk of a tree of five pairs or more.
C16_Witness ==
  /\ pc = "update"
  /\ stack = <<>>
  /\ cur.i = 1
  /\ Len(batchs) >= 5

(***************************************************************************)
(* C17: the walker pushes exactly one batch entry for every visited pair   *)
(* of which a side is present after component expansion, the entry of the  *)
(* expanded pair; for a pair whose sides both resolve absent it pushes no   *)
(* entry and traverses no children; a parsed frame pushes nothing; a run    *)
(* starts from an empty batch.                                              *)
(***************************************************************************)
C17_ParseStep ==
  (pc = "patch" /\ stack # <<>>) =>
    LET top == stack[Len(stack)]
        n == stripComponent(heap, top.newElement)
        o == stripComponent(heap, top.oldElement)
    IN /\ top.parsed => batchs' = batchs
       /\ (~top.parsed /\ n = NULL /\ o = NULL) =>
            /\ batchs' = batchs
            /\ stack' = SubSeq(stack, 1, Len(stack) - 1)
       /\ (~top.parsed /\ (n # NULL \/ o # NULL)) =>
            \/ pc' = "idle"
            \/ /\ Len(batchs') = Len(batchs) + 1
               /\ SubSeq(batchs', 1, Len(batchs)) = batchs
               /\ batchs'[Len(batchs')].newElement = n
               /\ batchs'[Len(batchs')].oldElement = o

C17_StartStep == (pc # "patch" /\ pc' = "patch") => batchs' = <<>>

C17_OneEntry == [][C17_ParseStep /\ C17_StartStep]_vars

\* Two roots with two children each, the second a component that renders
\* nothing on both sides: the batch has the entries of the two other pairs.
C17_Witness ==
  /\ pc = "update"
  /\ cur.i = 1
  /\ Len(batchs) = 2
  /\ LET nk == heap.e[stripComponent(heap, StartOf(1).el)].children
         ok == heap.e[stripComponent(heap, StartOf(1).old)].children
     IN /\ Len(nk) = 2
        /\ Len(ok) = 2
        /\ isComponent(heap, nk[2])
        /\ isComponent(heap, ok[2])
        /\ stripComponent(heap, nk[2]) = NULL
        /\ stripComponent(heap, ok[2]) = NULL

(***************************************************************************)
(* C18: batch entries are produced and applied top-down: the entry of the  *)
(* root is first and has no parent; the parent of every other entry is the *)
(* expanded new element of the frame from whose queue the node was taken,  *)
(* whose entry is earlier in the batch; the applier takes the entries in   *)
(* the order of the batch.                                                 *)
(***************************************************************************)
C18_PushStep ==
  (pc = "patch" /\ stack # <<>> /\ Len(batchs') = Len(batchs) + 1) =>
    LET b == batchs'[Len(batchs')]
    IN IF Len(stack) = 1
       THEN b.parent = NULL /\ batchs = <<>>
       ELSE /\ b.parent # NULL
            /\ b.parent = stack[Len(stack) - 1].newElement
            /\ \E j \in DOMAIN batchs : batchs[j].newElement = b.parent

C18_ApplyStep ==
  Applying =>
    LET H1 == updateBatch(heap, batchs[cur.i])
    IN IF H1.err THEN pc' = "idle"
       ELSE /\ heap' = H1
            /\ cur.i < Len(batchs) => cur'.i = cur.i + 1 /\ batchs' = batchs /\ pc' = "update"
            /\ cur.i = Len(batchs) => pc' = "cleanup"

C18_ParentFirst ==
  pc = "update" =>
    /\ batchs[1].parent = NULL
    /\ \A i \in DOMAIN batchs :
         i > 1 => \E j \in 1..(i - 1) :
                    /\ batchs[j].newElement = batchs[i].parent
                    /\ batchs[i].newElement # NULL =>
                         \E k \in DOMAIN heap.e[batchs[j].newElement].children :
                           stripComponent(heap, heap.e[batchs[j].newElement].children[k])
                             = batchs[i].newElement

C18_TopDown == [](C18_ParentFirst) /\ [][C18_PushStep /\ C18_ApplyStep]_vars

\* A batch with the entry of a grandchild of the root, all applied but the
\* last.
C18_Witness ==
  /\ pc = "update"
  /\ cur.i = Len(batchs)
  /\ \E i \in DOMAIN batchs :
       batchs[i].parent # NULL /\ batchs[i].parent # batchs[1].newElement

(***************************************************************************)
(* C19: the walker expands the children of a frame exactly when the frame  *)
(* has new or old children left and its difference is 'no structural       *)
(* change' or 'full replace'; the batch has no entry for a descendant of a *)
(* removed or of a newly inserted node.                                    *)
(***************************************************************************)
RECURSIVE Under(_, _)
\* The elements below el: its children and what it renders, recursively.
Under(H, el) ==
  IF el = NULL THEN {}
  ELSE LET below == {H.e[el].children[i] : i \in DOMAIN H.e[el].children}
                      \cup ({H.e[el].rendered} \ {NULL})
       IN below \cup UNION {Under(H, x) : x \in below}

ChildrenOf(H, el) == IF el = NULL THEN <<>> ELSE H.e[el].children

C19_ExpandStep ==
  (pc = "patch" /\ stack # <<>> /\ pc' = "patch") =>
    LET top == stack[Len(stack)]
        n == stripComponent(heap, top.newElement)
        o == stripComponent(heap, top.oldElement)
        left == IF top.parsed THEN top.newChildren # <<>> \/ top.oldChildren # <<>>
                ELSE ChildrenOf(heap, n) # <<>> \/ ChildrenOf(heap, o) # <<>>
        d == IF top.parsed THEN top.difference ELSE diff(heap, o, n)
    IN Expanding <=> (left /\ d.flags \in {{}, {"REPLACE_ELEMENT"}})

C19_NoDescendants ==
  pc = "update" =>
    \A i, j \in DOMAIN batchs :
      /\ isNewElement(batchs[i].difference) =>
           batchs[j].newElement \notin Under(heap, batchs[i].newElement)
      /\ isRemoveElement(batchs[i].difference) =>
           batchs[j].oldElement \notin Under(heap, batchs[i].oldElement)

C19_Expansion == [](C19_NoDescendants) /\ [][C19_ExpandStep]_vars

\* The batch has the entry of a removed node that had children, and
\* nothing for them.
C19_Witness ==
  /\ pc = "update"
  /\ \E i \in DOMAIN batchs :
       /\ isRemoveElement(batchs[i].difference)
       /\ batchs[i].parent # NULL
       /\ heap.e[batchs[i].oldElement].children # <<>>

(***************************************************************************)
(* C20: every batch entry whose handler reads the native node of the       *)
(* parent (a 'replaced' entry, or a 'new' entry with an old element) has a *)
(* parent, the entry of the top-level root pair included, so that applying *)
(* a batch never fails on an absent parent.                                *)
(***************************************************************************)
ReadsParent(b) ==
  \/ isReplaceElement(b.difference)
  \/ isNewElement(b.difference) /\ b.oldElement # NULL

C20_ParentPresent ==
  /\ pc = "update" => \A i \in DOMAIN batchs : ReadsParent(batchs[i]) => batchs[i].parent # NULL
  /\ \A k \in DOMAIN events : ~(events[k].ev = "throw" /\ events[k].arg = "update")

(***************************************************************************)
(* An owned tree one element of which lost its native node outside the     *)
(* reconciler (new FuelStem(tree) or registerOwner(tree) with such a tree). *)
(***************************************************************************)
Lost(S, i) == [S EXCEPT !.heap.e[i].dom = NULL]

LostShapes == {sh \in OldShapes : Len(sh.kids) <= 2}

InitLost ==
  \E sh \in LostShapes :
    \E i \in DOMAIN Owning(sh).heap.e : InitState(Lost(Owning(sh), i))

SpecLost == InitLost /\ [][NextTree]_vars

(***************************************************************************)
(* C21: when the walker parses a pair whose old element has no native      *)
(* node, reconciliation aborts at once with an error: no batch entry of    *)
(* the cycle is applied, the owned tree is not replaced and the callback   *)
(* of the caller is not invoked.                                           *)
(***************************************************************************)
Aborted(c) == \E k \in EvIdx("throw", c) : events[k].arg = "patch"

C21_AbortStep ==
  (/\ pc = "patch"
   /\ stack # <<>>
   /\ ~Top(stack).parsed
   /\ stripComponent(heap, Top(stack).oldElement) # NULL
   /\ heap.e[stripComponent(heap, Top(stack).oldElement)].dom = NULL) =>
    /\ pc' = "idle"
    /\ events' = Append(events, [ev |-> "throw", call |-> cur.cb, arg |-> "patch",
                                 el |-> NULL, updateOwner |-> TRUE, old |-> tree])
    /\ tree' = tree
    /\ NativeOf(heap') = NativeOf(heap)
    /\ stack' = <<>>

C21_NoEffect ==
  \A c \in Calls :
    Aborted(c) =>
      /\ ~Happened("diffed", c)
      /\ ~Happened("apply", c)
      /\ ~Happened("cleanup", c)
      /\ ~Happened("callback", c)
      /\ tree = StartOf(c).old
      /\ tree # StartOf(c).el

C21_Aborts == [](C21_NoEffect) /\ [][C21_AbortStep]_vars

\* The walk was aborted at a child of the root, after the entry of the
\* root pair had been pushed.
C21_Witness ==
  /\ Aborted(1)
  /\ batchs # <<>>
  /\ pc = "idle"

(***************************************************************************)
(* Trees with subtree roots: elements that carry a _stem, the reference to *)
(* a FuelStem of their own (1, 2, 3 name three such stems).                *)
(***************************************************************************)
Rooted(sh, st) == [sh EXCEPT !.stem = st]

InnerSeqs == {<<>>, <<Leaf("span", 0)>>}

OldInner == {Rooted(Host("div", 0, 0, g, FALSE), st) : g \in InnerSeqs, st \in {NULL, 2}}

NewInner ==
  {Rooted(Host(t, 0, 0, g, FALSE), st) :
     t \in {"div", "span"}, g \in InnerSeqs, st \in {NULL, 3}}

OldStemShapes ==
  {Rooted(Host("div", 0, 0, ks, FALSE), st) :
     ks \in UNION {[1..n -> OldInner] : n \in 0..2}, st \in {NULL, 1}}

NewStemShapes ==
  {Host("div", 0, 0, ks, FALSE) : ks \in UNION {[1..n -> NewInner] : n \in 0..2}}

InitStem == \E sh \in OldStemShapes : InitState(Owning(sh))

\* render(el, callback) of a tree with subtree roots.
RenderStem ==
  /\ cs = <<>>
  /\ nextCall = 0
  /\ \E sh \in NewStemShapes : Commit(Call(State, sh, DefaultContext, TRUE))

NextStem ==
  \/ RenderStem
  \/ PatchStep
  \/ PatchDone
  \/ UpdateStep
  \/ Cleanup
  \/ Callback
  \/ Unlock

SpecStem == InitStem /\ [][NextStem]_vars

\* The element of the new tree whose child n is.
ParentOf(H, n) == CHOOSE p \in DOMAIN H.e : \E i \in DOMAIN H.e[p].children : H.e[p].children[i] = n

RECURSIVE Nearest(_, _, _)
\* The closest element carrying a _stem on the path from n up to top.
Nearest(H, n, top) ==
  IF n = top \/ H.e[n]._stem # NULL THEN n ELSE Nearest(H, ParentOf(H, n), top)

(***************************************************************************)
(* C22: the root recorded in every batch entry is the nearest enclosing    *)
(* subtree root of the node: the closest new element, from the node itself *)
(* up to the top-level root, that carries a _stem when the node is parsed, *)
(* a _stem inherited from the old counterpart during the walk included.    *)
(***************************************************************************)
\* The step that pushes the entry of a node.  For a node that brought a
\* _stem of its own and lost it to its old counterpart in this step, the
\* node itself is accepted as well.
C22_PushStep ==
  (pc = "patch" /\ Len(batchs') = Len(batchs) + 1) =>
    LET b == batchs'[Len(batchs')]
        n == b.newElement
    IN n # NULL =>
         \/ b.root = Nearest(heap', n, cur.el)
         \/ heap.e[n]._stem # NULL /\ b.root = n

C23_ParseStep ==
  (pc = "patch" /\ Len(batchs') = Len(batchs) + 1) =>
    LET b == batchs'[Len(batchs')]
    IN (b.newElement # NULL /\ b.oldElement # NULL
          /\ ~isReplaceElement(b.difference)) =>
         /\ heap'.e[b.newElement]._stem = heap.e[b.oldElement]._stem
         /\ heap'.e[b.oldElement]._stem = heap.e[b.oldElement]._stem
         /\ b.difference = diff(heap', b.oldElement, b.newElement)

\* Applying a 'removed' entry: the three effects come together, and an
\* entry whose native node cannot be detached keeps the _stem.
C23_RemoveStep ==
  (pc = "update" /\ events' # events /\ isRemoveElement(batchs[cur.i].difference)) =>
    LET o == batchs[cur.i].oldElement
    IN IF events'[Len(events')].ev = "apply"
       THEN /\ heap'.e[o]._stem = NULL
            /\ heap'.hooks = Append(heap.hooks, <<"willUnmount", o>>)
            /\ heap.e[o].dom # NULL
            /\ heap.n[heap.e[o].dom].parent # NULL
            /\ heap'.n[heap.e[o].dom].parent = NULL
       ELSE heap'.e[o]._stem = heap.e[o]._stem

C23_StemTravels == [][C23_ParseStep /\ C23_RemoveStep]_vars

\* The root pair is retained and the new root has the _stem of the old
\* root; the entry of a removed child was applied, and the entry of a
\* removed subtree root is the next one.
C23_Witness ==
  /\ pc = "update"
  /\ cur.i = 3
  /\ Len(batchs) = 3
  /\ ~isReplaceElement(batchs[1].difference)
  /\ heap.e[batchs[1].newElement]._stem = 1
  /\ isRemoveElement(batchs[2].difference)
  /\ heap.e[batchs[2].oldElement]._stem = NULL
  /\ heap.n[heap.e[batchs[2].oldElement].dom].parent = NULL
  /\ isRemoveElement(batchs[3].difference)
  /\ heap.e[batchs[3].oldElement]._stem = 2

(***************************************************************************)
(* C24: a render queued while the stem is locked is replayed later with    *)
(* the arguments it was submitted with: the same element, callback,        *)
(* context and updateOwner flag.                                           *)
(***************************************************************************)
C24_SameArguments ==
  \A c \in Queued :
    \A q \in EvIdx("queue", c), p \in EvIdx("patch", c) :
      /\ events[p].el = events[q].el
      /\ events[p].updateOwner = events[q].updateOwner

(***************************************************************************)
(* C25: the tree handed to cleanup at the end of a patch-path render is    *)
(* never the tree the stem still owns afterwards, whether updateOwner is   *)
(* true or false; with updateOwner = false the owned tree is left          *)
(* unchanged and is not torn down.                                         *)
(***************************************************************************)
C25_CleansOldTree ==
  /\ \A k \in DOMAIN events :
       events[k].ev = "cleanup" => events[k].arg # events[k].old
  /\ \A c \in Calls :
       (Completed(c) /\ ~StartOf(c).updateOwner) =>
         /\ tree = StartOf(c).old
         /\ tree \notin cleaned

(***************************************************************************)
(* C26: reconciliation is disabled exactly while a function passed to      *)
(* enterUnsafeUpdateZone is executing: a render call made before the       *)
(* outermost enterUnsafeUpdateZone call has finished skips diffing, also   *)
(* after a nested call has returned, and once the outermost call has       *)
(* finished, by returning or by throwing, render calls reconcile again.    *)
(***************************************************************************)
Skipped(c) == \E k \in DOMAIN events' : events'[k].ev = "skip" /\ events'[k].call = c

C26_CallStep == (nextCall' = nextCall + 1) => (Skipped(nextCall') <=> ZoneDepth > 0)

C26_ExactlyInZone == [][C26_CallStep]_vars

(***************************************************************************)
(* C27: after a patch cycle, the key index built lazily on a new parent    *)
(* maps the key of every new child of that parent that was matched by key  *)
(* during the cycle to that new child, and it is attached to the new       *)
(* element of the parent whose children were matched.                      *)
(***************************************************************************)
C27_LazyKeyIndex ==
  (pc = "update" /\ cur.i = 1) =>
    \A i \in DOMAIN batchs :
      (batchs[i].isKeyedItem /\ batchs[i].newElement # NULL) =>
        LET n == batchs[i].newElement
            p == ParentOf(heap, n)
        IN /\ heap.e[p]._keymap.has
           /\ heap.e[p]._keymap.map[heap.e[n].key] = n

====
